---- MODULE Spec2Model ----
(***************************************************************************)
(* Model of nibeudp: the frame codec (escape/unescape, checksum, parse,    *)
(* to_bytes of the Command and Message dataclasses), the Connection's      *)
(* inbound message stream and the Controller's listener set, dispatch loop *)
(* and read/write calls.                                                   *)
(*                                                                         *)
(* Representation.                                                         *)
(*   bytes            a sequence of numbers 0..255                         *)
(*   str              a sequence of code points                            *)
(*   16-bit integers  numbers                                              *)
(*   RequestWrite.value, ResponseRead.value                                *)
(*                    Python integers of up to 32 bits and more; they are  *)
(*                    kept as a pair [hi, lo] of the number hi*65536 + lo, *)
(*                    0 <= lo < 65536, because the numbers of the checker  *)
(*                    stop at 2^31-1.                                      *)
(*   dict             a sequence of <<key, value>> pairs with distinct     *)
(*                    keys, in insertion order                             *)
(*   dataclass value  a record with a field cls naming its class, a field  *)
(*                    per dataclass field, and the ClassVar constants      *)
(*                    (command, start) it is read through                  *)
(*   a call's outcome [ok |-> TRUE, val |-> v] when it returns v,          *)
(*                    [ok |-> FALSE, exc |-> class, msg |-> text] when it  *)
(*                    raises                                               *)
(***************************************************************************)
EXTENDS Integers, Sequences, FiniteSets, TLC

Ok(v) == [ok |-> TRUE, val |-> v]

Raise(e, m) == [ok |-> FALSE, exc |-> e, msg |-> m]

Min(a, b) == IF a < b THEN a ELSE b

(* Python slice data[a:b] of a sequence, 0-based, clipped to the sequence *)
Slice(data, a, b) == SubSeq(data, a + 1, Min(b, Len(data)))

(* Python slice data[a:] *)
SliceFrom(data, a) == SubSeq(data, a + 1, Len(data))

RECURSIVE BitXor(_, _)
BitXor(a, b) ==
    IF a = 0 THEN b
    ELSE IF b = 0 THEN a
    ELSE (((a % 2) + (b % 2)) % 2) + 2 * BitXor(a \div 2, b \div 2)

RECURSIVE BitOr(_, _)
BitOr(a, b) ==
    IF a = 0 THEN b
    ELSE IF b = 0 THEN a
    ELSE (IF (a % 2) + (b % 2) > 0 THEN 1 ELSE 0) + 2 * BitOr(a \div 2, b \div 2)

RECURSIVE BitAnd(_, _)
BitAnd(a, b) ==
    IF a = 0 \/ b = 0 THEN 0
    ELSE (IF (a % 2) + (b % 2) = 2 THEN 1 ELSE 0) + 2 * BitAnd(a \div 2, b \div 2)

(***************************************************************************)
(* Integers and bytes                                                      *)
(***************************************************************************)
U32(hi, lo) == [hi |-> hi, lo |-> lo]

(* n.to_bytes(2, "little") *)
Int16ToBytes(n) ==
    IF n < 0 THEN Raise("OverflowError", "can't convert negative int to unsigned")
    ELSE IF n > 65535 THEN Raise("OverflowError", "int too big to convert")
    ELSE Ok(<<n % 256, n \div 256>>)

(* v.to_bytes(4, "little") of the integer v.hi*65536 + v.lo *)
Int32ToBytes(v) ==
    IF v.hi < 0 THEN Raise("OverflowError", "can't convert negative int to unsigned")
    ELSE IF v.hi > 65535 THEN Raise("OverflowError", "int too big to convert")
    ELSE Ok(<<v.lo % 256, v.lo \div 256, v.hi % 256, v.hi \div 256>>)

(* int.from_bytes(b, "little") of at most two bytes *)
RECURSIVE Int16FromBytes(_)
Int16FromBytes(b) ==
    IF b = <<>> THEN 0 ELSE b[1] + 256 * Int16FromBytes(Tail(b))

(* int.from_bytes(b, "little") of at most four bytes *)
Int32FromBytes(b) == U32(Int16FromBytes(Slice(b, 2, 4)), Int16FromBytes(Slice(b, 0, 2)))

(***************************************************************************)
(* The dataclasses                                                         *)
(***************************************************************************)
CommandUnknown(command, data) ==
    [cls |-> "CommandUnknown", command |-> command, data |-> data]

ResponseWrite(register) ==
    [cls |-> "ResponseWrite", command |-> 108, register |-> register]

ResponseRead(register, value) ==
    [cls |-> "ResponseRead", command |-> 106, register |-> register, value |-> value]

ResponseData(parameters) ==
    [cls |-> "ResponseData", command |-> 104, parameters |-> parameters]

ResponseRmu(data) ==
    [cls |-> "ResponseRmu", command |-> 98, data |-> data]

RequestReadNull == [cls |-> "RequestReadNull", command |-> 105]

RequestRead(register) ==
    [cls |-> "RequestRead", command |-> 105, register |-> register]

RequestWriteNull == [cls |-> "RequestWriteNull", command |-> 107]

RequestWrite(register, value) ==
    [cls |-> "RequestWrite", command |-> 107, register |-> register, value |-> value]

ResponseProduct(unknown, product) ==
    [cls |-> "ResponseProduct", command |-> 109, unknown |-> unknown, product |-> product]

MessageMaster(address, command) ==
    [cls |-> "MessageMaster", start |-> 92, address |-> address, command |-> command]

MessageSlave(command) ==
    [cls |-> "MessageSlave", start |-> 192, command |-> command]

MessageAck == [cls |-> "MessageAck", start |-> 6]

MessageNak == [cls |-> "MessageNak", start |-> 21]

MessageUnknown(start, data) ==
    [cls |-> "MessageUnknown", start |-> start, data |-> data]

(* dict: the pairs of d as a set; two dicts are equal iff these agree *)
DictItems(d) == {d[i] : i \in DOMAIN d}

DictKeys(d) == {d[i][1] : i \in DOMAIN d}

(* parameters[register] = data: a new key goes last, a known key keeps its place *)
DictSet(d, k, v) ==
    IF k \in DictKeys(d)
    THEN [i \in DOMAIN d |-> IF d[i][1] = k THEN <<k, v>> ELSE d[i]]
    ELSE Append(d, <<k, v>>)

(* the generated __eq__ of the Command dataclasses: same class, equal fields *)
CommandEq(a, b) ==
    /\ a.cls = b.cls
    /\ IF a.cls = "ResponseData"
       THEN DictItems(a.parameters) = DictItems(b.parameters)
       ELSE a = b

(* the generated __eq__ of the Message dataclasses *)
MessageEq(a, b) ==
    /\ a.cls = b.cls
    /\ IF a.cls \in {"MessageMaster", "MessageSlave"}
       THEN /\ [f \in DOMAIN a \ {"command"} |-> a[f]] = [f \in DOMAIN b \ {"command"} |-> b[f]]
            /\ CommandEq(a.command, b.command)
       ELSE a = b

(***************************************************************************)
(* Command.to_bytes of each class                                          *)
(***************************************************************************)
RegisterValueToBytes(register, value) ==
    LET r == Int16ToBytes(register)
    IN  IF ~r.ok THEN r
        ELSE LET v == Int32ToBytes(value)
             IN  IF ~v.ok THEN v ELSE Ok(r.val \o v.val)

RECURSIVE ResponseData_to_bytes(_)
ResponseData_to_bytes(parameters) ==
    IF parameters = <<>> THEN Ok(<<>>)
    ELSE LET r == Int16ToBytes(parameters[1][1])
         IN  IF ~r.ok THEN r
             ELSE LET d == Int16ToBytes(parameters[1][2])
                  IN  IF ~d.ok THEN d
                      ELSE LET rest == ResponseData_to_bytes(Tail(parameters))
                           IN  IF ~rest.ok THEN rest
                               ELSE Ok(r.val \o d.val \o rest.val)

Command_to_bytes(c) ==
    CASE c.cls = "CommandUnknown" -> Ok(c.data)
      [] c.cls = "ResponseWrite"  -> Int16ToBytes(c.register)
      [] c.cls = "ResponseRead"   -> RegisterValueToBytes(c.register, c.value)
      [] c.cls = "ResponseData"   -> ResponseData_to_bytes(c.parameters)
      [] c.cls = "RequestRead"    -> Int16ToBytes(c.register)
      [] c.cls = "RequestWrite"   -> RegisterValueToBytes(c.register, c.value)
      [] OTHER                    -> Ok(<<>>)

(***************************************************************************)
(* from_bytes of each class                                                *)
(***************************************************************************)
ResponseWrite_from_bytes(payload) ==
    IF Len(payload) # 2 THEN Raise("ParseError", "Length is not 2")
    ELSE Ok(ResponseWrite(Int16FromBytes(payload)))

ResponseRead_from_bytes(payload) ==
    IF Len(payload) # 6 THEN Raise("ParseError", "Length is not 6")
    ELSE Ok(ResponseRead(Int16FromBytes(Slice(payload, 0, 2)),
                         Int32FromBytes(Slice(payload, 2, 6))))

(* mutant: the group of register FFFF is stored like any other *)
RECURSIVE ResponseData_groups_keeps_sentinel(_, _)
ResponseData_groups_keeps_sentinel(payload, parameters) ==
    IF payload = <<>> THEN parameters
    ELSE LET register == Int16FromBytes(Slice(payload, 0, 2))
             data     == Int16FromBytes(Slice(payload, 2, 4))
         IN  ResponseData_groups_keeps_sentinel(SliceFrom(payload, 4),
                 DictSet(parameters, register, data))

RECURSIVE ResponseData_groups(_, _)
ResponseData_groups(payload, parameters) ==
    IF payload = <<>> THEN parameters
    ELSE LET register == Int16FromBytes(Slice(payload, 0, 2))
             data     == Int16FromBytes(Slice(payload, 2, 4))
         IN  ResponseData_groups(SliceFrom(payload, 4),
                 IF register = 65535 THEN parameters
                 ELSE DictSet(parameters, register, data))

ResponseData_from_bytes(payload) ==
    IF Len(payload) % 4 # 0 THEN Raise("ParseError", "Length is not a multiple of 4")
    ELSE Ok(ResponseData(ResponseData_groups(payload, <<>>)))

ResponseRmu_from_bytes(payload) == Ok(ResponseRmu(payload))

(* mutant: a payload longer than the register is accepted *)
RequestRead_from_bytes_at_least(payload) ==
    IF Len(payload) < 2 THEN Raise("ParseError", "Length is not 2")
    ELSE Ok(RequestRead(Int16FromBytes(Slice(payload, 0, 2))))

RequestRead_from_bytes(payload) ==
    IF Len(payload) # 2 THEN Raise("ParseError", "Length is not 2")
    ELSE Ok(RequestRead(Int16FromBytes(payload)))

RequestWrite_from_bytes(payload) ==
    IF Len(payload) # 6 THEN Raise("ParseError", "Length is not 6")
    ELSE Ok(RequestWrite(Int16FromBytes(Slice(payload, 0, 2)),
                         Int32FromBytes(Slice(payload, 2, 6))))

(* bytes.decode("ascii") *)
DecodeAscii(b) ==
    IF \E i \in DOMAIN b : b[i] > 127
    THEN Raise("UnicodeDecodeError", "ordinal not in range(128)")
    ELSE Ok(b)

ResponseProduct_from_bytes(payload) ==
    LET product == DecodeAscii(SliceFrom(payload, 3))
    IN  IF ~product.ok THEN product
        ELSE Ok(ResponseProduct(Slice(payload, 0, 3), product.val))

(* mutant: a kind with no class of its own is refused *)
parse_payload_refuses_unknown(command, payload) ==
    IF command = 106 THEN ResponseRead_from_bytes(payload)
    ELSE IF command = 108 THEN ResponseWrite_from_bytes(payload)
    ELSE IF command = 104 THEN ResponseData_from_bytes(payload)
    ELSE IF command = 98 THEN ResponseRmu_from_bytes(payload)
    ELSE IF command = 105 /\ payload # <<>> THEN RequestRead_from_bytes(payload)
    ELSE IF command = 105 THEN Ok(RequestReadNull)
    ELSE IF command = 107 /\ payload # <<>> THEN RequestWrite_from_bytes(payload)
    ELSE IF command = 107 THEN Ok(RequestWriteNull)
    ELSE IF command = 109 THEN ResponseProduct_from_bytes(payload)
    ELSE Raise("ParseError", "Unknown command")

parse_payload(command, payload) ==
    IF command = 106 THEN ResponseRead_from_bytes(payload)
    ELSE IF command = 108 THEN ResponseWrite_from_bytes(payload)
    ELSE IF command = 104 THEN ResponseData_from_bytes(payload)
    ELSE IF command = 98 THEN ResponseRmu_from_bytes(payload)
    ELSE IF command = 105 /\ payload # <<>> THEN RequestRead_from_bytes(payload)
    ELSE IF command = 105 THEN Ok(RequestReadNull)
    ELSE IF command = 107 /\ payload # <<>> THEN RequestWrite_from_bytes(payload)
    ELSE IF command = 107 THEN Ok(RequestWriteNull)
    ELSE IF command = 109 THEN ResponseProduct_from_bytes(payload)
    ELSE Ok(CommandUnknown(command, payload))

(***************************************************************************)
(* Byte stuffing and checksum                                              *)
(***************************************************************************)
RECURSIVE unescape_loop(_, _, _)
unescape_loop(data, key, i) ==
    IF i > Len(data) THEN <<>>
    ELSE IF data[i] = key
         THEN IF i + 1 > Len(data) THEN <<>>
              ELSE <<data[i + 1]>> \o unescape_loop(data, key, i + 2)
         ELSE <<data[i]>> \o unescape_loop(data, key, i + 1)

(* mutant: the bytes are taken as they come, nothing is un-stuffed *)
unescape_nothing(data, key) == data

unescape(data, key) ==
    IF data = <<>> THEN <<>> ELSE <<data[1]>> \o unescape_loop(data, key, 2)

RECURSIVE escape_loop(_, _, _)
escape_loop(data, key, i) ==
    IF i > Len(data) THEN <<>>
    ELSE IF data[i] = key
         THEN <<key, data[i]>> \o escape_loop(data, key, i + 1)
         ELSE <<data[i]>> \o escape_loop(data, key, i + 1)

(* mutant: the bytes go out as they are, no key is doubled *)
escape_no_stuffing(data, key) == data

escape(data, key) ==
    IF data = <<>> THEN <<>> ELSE <<data[1]>> \o escape_loop(data, key, 2)

RECURSIVE XorAll(_)
XorAll(data) == IF data = <<>> THEN 0 ELSE BitXor(data[1], XorAll(Tail(data)))

calculate_checksum(data, key) ==
    LET result == XorAll(data)
    IN  IF result = key
        THEN BitAnd(BitOr(key * 16, key \div 16), 255)
        ELSE result

(***************************************************************************)
(* parse                                                                   *)
(***************************************************************************)
(* mutant: the datagram has to end with the checksum byte *)
parse_master_exact_length(raw) ==
    LET data == unescape(raw, 92)
    IN  IF Len(data) < 5 THEN Raise("IndexError", "index out of range")
        ELSE LET data_len == data[5]
             IN  IF Len(data) # data_len + 6
                 THEN Raise("ParseError", "Invalid packet length")
                 ELSE LET data_payload  == Slice(data, 5, 5 + data_len)
                          data_command  == data[4]
                          data_checksum == data[5 + data_len + 1]
                          checksum == calculate_checksum(Slice(data, 2, 5 + data_len), data[1])
                      IN  IF checksum # data_checksum
                          THEN Raise("ParseError", "Invalid checksum")
                          ELSE LET command == parse_payload(data_command, data_payload)
                               IN  IF ~command.ok THEN command
                                   ELSE Ok(MessageMaster(data[3], command.val))

parse_master(raw) ==
    LET data == unescape(raw, 92)
    IN  IF Len(data) < 5 THEN Raise("IndexError", "index out of range")
        ELSE LET data_len == data[5]
             IN  IF Len(data) < data_len + 6
                 THEN Raise("ParseError", "Invalid packet length")
                 ELSE LET data_payload  == Slice(data, 5, 5 + data_len)
                          data_command  == data[4]
                          data_checksum == data[5 + data_len + 1]
                          checksum == calculate_checksum(Slice(data, 2, 5 + data_len), data[1])
                      IN  IF checksum # data_checksum
                          THEN Raise("ParseError", "Invalid checksum")
                          ELSE LET command == parse_payload(data_command, data_payload)
                               IN  IF ~command.ok THEN command
                                   ELSE Ok(MessageMaster(data[3], command.val))

(* mutant: the checksum byte is not compared *)
parse_slave_unchecked(raw) ==
    LET data == unescape(raw, 192)
    IN  IF Len(data) < 3 THEN Raise("IndexError", "index out of range")
        ELSE LET data_len == data[3]
             IN  IF Len(data) < data_len + 4
                 THEN Raise("ParseError", "Invalid packet length")
                 ELSE LET data_payload  == Slice(data, 3, 3 + data_len)
                          data_command  == data[2]
                          command == parse_payload(data_command, data_payload)
                      IN  IF ~command.ok THEN command
                          ELSE Ok(MessageSlave(command.val))

parse_slave(raw) ==
    LET data == unescape(raw, 192)
    IN  IF Len(data) < 3 THEN Raise("IndexError", "index out of range")
        ELSE LET data_len == data[3]
             IN  IF Len(data) < data_len + 4
                 THEN Raise("ParseError", "Invalid packet length")
                 ELSE LET data_payload  == Slice(data, 3, 3 + data_len)
                          data_command  == data[2]
                          data_checksum == data[3 + data_len + 1]
                          checksum == calculate_checksum(Slice(data, 0, 3 + data_len), data[1])
                      IN  IF checksum # data_checksum
                          THEN Raise("ParseError", "Invalid checksum")
                          ELSE LET command == parse_payload(data_command, data_payload)
                               IN  IF ~command.ok THEN command
                                   ELSE Ok(MessageSlave(command.val))

(* mutant: a datagram that starts with 06 is not taken for the ACK *)
parse_without_ack(data) ==
    IF data = <<>> THEN Raise("ParseError", "Empty packet")
    ELSE IF data[1] = 92 THEN parse_master(data)
    ELSE IF data[1] = 192 THEN parse_slave(data)
    ELSE IF data[1] = 21 THEN Ok(MessageNak)
    ELSE Ok(MessageUnknown(data[1], SliceFrom(data, 1)))

parse(data) ==
    IF data = <<>> THEN Raise("ParseError", "Empty packet")
    ELSE IF data[1] = 92 THEN parse_master(data)
    ELSE IF data[1] = 192 THEN parse_slave(data)
    ELSE IF data[1] = 6 THEN Ok(MessageAck)
    ELSE IF data[1] = 21 THEN Ok(MessageNak)
    ELSE Ok(MessageUnknown(data[1], SliceFrom(data, 1)))

(***************************************************************************)
(* Message.to_bytes                                                        *)
(***************************************************************************)
(* bytearray.append(n) *)
AppendByte(data, n) ==
    IF n < 0 \/ n > 255 THEN Raise("ValueError", "byte must be in range(0, 256)")
    ELSE Ok(Append(data, n))

MessageSlave_to_bytes(m) ==
    LET d1 == AppendByte(<<m.start>>, m.command.command)
    IN  IF ~d1.ok THEN d1
        ELSE LET payload == Command_to_bytes(m.command)
             IN  IF ~payload.ok THEN payload
                 ELSE LET d2 == AppendByte(d1.val, Len(payload.val))
                      IN  IF ~d2.ok THEN d2
                          ELSE LET data == d2.val \o payload.val
                               IN  Ok(Append(data, calculate_checksum(data, m.start)))

(* the checksum line calls calculate_checksum(data[2:]) with one argument *)
MessageMaster_to_bytes(m) ==
    LET d1 == AppendByte(<<m.start, 0>>, m.address)
    IN  IF ~d1.ok THEN d1
        ELSE LET d2 == AppendByte(d1.val, m.command.command)
             IN  IF ~d2.ok THEN d2
                 ELSE LET payload == Command_to_bytes(m.command)
                      IN  IF ~payload.ok THEN payload
                          ELSE LET d3 == AppendByte(d2.val, Len(payload.val))
                               IN  IF ~d3.ok THEN d3
                                   ELSE Raise("TypeError",
                                       "calculate_checksum() missing 1 required positional argument: 'key'")

(* m.to_bytes() of any Message; the base class method wants an argument *)
Message_to_bytes(m) ==
    IF m.cls = "MessageMaster" THEN MessageMaster_to_bytes(m)
    ELSE IF m.cls = "MessageSlave" THEN MessageSlave_to_bytes(m)
    ELSE Raise("TypeError", "to_bytes() missing 1 required positional argument: 'command'")

(***************************************************************************)
(* The program's state                                                     *)
(***************************************************************************)
VARIABLES
    listeners,  \* Controller._listeners: the identities of the registered listeners
    calls,      \* the read/write calls, one record per task slot
    udp,        \* Connection._udp: the UDP socket the Connection made last
    stream,     \* the consumer's iteration of the Controller: "running", or how it
                \* ended: "crashed" by an exception of parse, "closed" by the
                \* ClosedResourceError and "broken" by the BrokenResourceError of receive
    rx,         \* the socket the consumer's iteration receives from: the
                \* Connection's, or the one the Connection had when the iteration
                \* began and has replaced since
    scopes,     \* the external listen scopes: how many are open, and the error the
                \* last one that was left raised
    last,       \* what the dispatch loop did in the step just taken: the datagram
                \* and what became of it; nothing when the step dispatched none
    heard,      \* per call: the first matching reply dispatched while it was awaiting
    h_pc,       \* codec run: its position
    h_in,       \* codec run: the input (a Message, a Command or a frame)
    h_enc,      \* codec run: the outcome of to_bytes() of the input
    h_tamper,   \* codec run: what was done to the bytes before decoding them
    h_data,     \* codec run: the bytes given to the decoder
    h_out,      \* codec run: the outcome of parse or parse_payload
    h_re,       \* codec run: the outcome of to_bytes() of the parsed Message
    h_more,     \* codec run: the bytes with more bytes after them, and the outcome of parse of these
    fut,        \* future run: the ResponseFuture
    getter,     \* future run: the task that awaits fut.get()
    setlog      \* future run: the responses fut.set() was called with, in order

ctlVars == <<listeners, calls, udp, stream, rx, scopes, last, heard>>

codecVars == <<h_pc, h_in, h_enc, h_tamper, h_data, h_out, h_re, h_more>>

futVars == <<fut, getter, setlog>>

vars == <<listeners, calls, udp, stream, rx, scopes, last, heard, h_pc, h_in, h_enc, h_tamper, h_data, h_out, h_re,
          h_more, fut, getter, setlog>>

None == [cls |-> "None"]

DEFAULT_PORT_READ == 9999

DEFAULT_PORT_WRITE == 10000

(* bounds *)
MaxCalls == 2

MaxScopes == 2

MaxQueued == 1

Calls == 1 .. MaxCalls

(* the identity of the listener of an external listen scope; a call's listener *)
(* has the identity of its call                                                *)
ExtListener == 0

(* the registers the reads are made with; 65536 has no 2-byte form *)
ReadRegisters == {4660, 12345, 65536}

(* the register and the value the writes are made with *)
WriteRegisters == {4660}

CallValue == U32(0, 7)

(***************************************************************************)
(* Frames as the peer puts them on the wire, in the layout parse reads:    *)
(* the length byte counts the payload before stuffing, the checksum is     *)
(* taken before stuffing, and every byte after the first that equals the   *)
(* start byte is doubled.                                                  *)
(***************************************************************************)
WireMaster(address, kind, payload) ==
    LET body == <<address, kind, Len(payload)>> \o payload
    IN  escape(<<92, 0>> \o body \o <<calculate_checksum(body, 92)>>, 92)

WireSlave(kind, payload) ==
    LET body == <<192, kind, Len(payload)>> \o payload
    IN  escape(body \o <<calculate_checksum(body, 192)>>, 192)

(* the datagrams that arrive at the socket in the model *)
Datagrams ==
    { WireMaster(32, 106, <<52, 18, 100, 0, 0, 0>>),    \* read response 4660 = 100
      WireMaster(32, 106, <<57, 48, 200, 0, 0, 0>>),    \* read response 12345 = 200
      WireMaster(32, 108, <<52, 18>>),                  \* write response 4660
      <<92, 0, 32, 108, 2, 52, 18, 0>>,                 \* wrong checksum
      <<92>> }                                          \* shorter than the header

(***************************************************************************)
(* ResponseFuture                                                          *)
(***************************************************************************)
NewResponseFuture == [event |-> FALSE, response |-> None]

(* mutant: the response is stored and the event is left as it was *)
ResponseFuture_set_no_event(future, response) ==
    [event |-> future.event, response |-> response]

(* ResponseFuture.set *)
ResponseFuture_set(future, response) == [event |-> TRUE, response |-> response]

(* ResponseFuture.get, once event.wait() has returned *)
ResponseFuture_get(future) == future.response

(***************************************************************************)
(* Controller                                                              *)
(***************************************************************************)
(* a UDP socket as create_udp_socket returns it: whether aclose() was      *)
(* called on it, whether its transport is closing, and the datagrams that  *)
(* its protocol has queued for receive                                     *)
NewSocket == [closed |-> FALSE, closing |-> FALSE, queue |-> <<>>]

(* what a task that uses a socket holds: the Connection's socket (on "udp"), *)
(* or a socket the Connection has replaced (on "old", with its state); a     *)
(* task that uses none holds NoSocket                                        *)
NoSocket == [on |-> "none", sock |-> NewSocket]

TheSocket == [on |-> "udp", sock |-> NewSocket]

OldSocket(sock) == [on |-> "old", sock |-> sock]

(* the step dispatched no datagram *)
NoDispatch ==
    [packet |-> <<>>, outcome |-> "none", message |-> None,
     registered |-> {}, invoked |-> <<>>, arg |-> None, emitted |-> None]

IdleCall ==
    [pc |-> "idle", kind |-> "none", register |-> 0, value |-> U32(0, 0),
     future |-> NewResponseFuture, frame |-> None, sock |-> NoSocket, result |-> None]

(* a call that has left read()/write(): its locals are gone, its outcome stays *)
Finished(pc, result) == [IdleCall EXCEPT !.pc = pc, !.result = result]

InFlight(c) == c.pc \in {"sending", "waiting"}

(* mutant: the scope is entered without adding the listener *)
listen_enter_forgets(ls, l) == ls

(* listen(): entering the scope *)
listen_enter(ls, l) == ls \cup {l}

(* mutant: the scope is left without the finally clause *)
listen_exit_forgets(ls, l) == Ok(ls)

(* listen(): the finally clause, on every way out of the scope *)
listen_exit(ls, l) ==
    IF l \in ls THEN Ok(ls \ {l}) ELSE Raise("KeyError", "listener")

(* a with-block of listen() is left with outcome: the listener set after it, *)
(* and what leaves the block: an exception of the finally clause takes the   *)
(* place of the outcome                                                      *)
leave_scope(ls, l, outcome) ==
    LET exit == listen_exit(ls, l)
    IN  IF exit.ok THEN [listeners |-> exit.val, clean |-> TRUE, outcome |-> outcome]
        ELSE [listeners |-> ls, clean |-> FALSE, outcome |-> exit]

(* mutant: the listener takes whatever is dispatched *)
read_listener_unfiltered(reply, register) == TRUE

(* Controller.read.listener: whether it calls response.set(reply) *)
read_listener(reply, register) ==
    IF reply.cls # "ResponseRead" THEN FALSE
    ELSE IF reply.register # register THEN FALSE
    ELSE TRUE

(* Controller.write.listener: whether it calls response.set(reply) *)
write_listener(reply, register) ==
    IF reply.cls # "ResponseWrite" THEN FALSE
    ELSE IF reply.register # register THEN FALSE
    ELSE TRUE

(* the listener of call c, invoked with reply: the call afterwards *)
call_listener(c, reply) ==
    IF \/ c.kind = "read" /\ read_listener(reply, c.register)
       \/ c.kind = "write" /\ write_listener(reply, c.register)
    THEN [c EXCEPT !.future = ResponseFuture_set(c.future, reply)]
    ELSE c

(* Controller.__aiter__: what it hands to the listeners and yields, for each *)
(* item of the Connection's stream                                           *)
dispatch_item(message) == message

(* Connection.send: the frame and the port given to the socket's sendto *)
Connection_send(command) ==
    LET data == MessageSlave_to_bytes(MessageSlave(command))
    IN  IF ~data.ok THEN data
        ELSE IF command.cls = "RequestRead"
             THEN Ok([data |-> data.val, port |-> DEFAULT_PORT_READ])
        ELSE IF command.cls = "RequestWrite"
             THEN Ok([data |-> data.val, port |-> DEFAULT_PORT_WRITE])
        ELSE Raise("UnboundLocalError",
                   "cannot access local variable 'port' where it is not associated with a value")

(* the socket a task holds *)
SocketOf(held) == IF held.on = "udp" THEN udp ELSE held.sock

(* the protocol of the socket is given a datagram *)
datagram_received(sock, d) == [sock EXCEPT !.queue = Append(@, d)]

(* the socket's receive can go on: a datagram is queued, or the transport is *)
(* closing                                                                   *)
UDPSocket_can_receive(sock) == sock.queue # <<>> \/ sock.closing

(* the socket's receive, once it can go on: the datagram queued first, also *)
(* after the socket was closed; with none queued, the error                 *)
UDPSocket_receive(sock) ==
    IF sock.queue # <<>> THEN Ok(Head(sock.queue))
    ELSE IF sock.closed THEN Raise("ClosedResourceError", "")
    ELSE Raise("BrokenResourceError", "")

(* the socket's aclose *)
UDPSocket_aclose(sock) == [sock EXCEPT !.closed = TRUE, !.closing = TRUE]

(* the socket's sendto is entered: it is guarded against a second task that *)
(* is sending, busy being whether another task is suspended in it           *)
UDPSocket_sendto_enter(busy) ==
    IF busy THEN Raise("BusyResourceError", "Another task is already writing to this resource")
    ELSE Ok(None)

(* the socket's sendto is resumed: before it gives the datagram to its *)
(* transport it looks at the state of the socket                       *)
UDPSocket_sendto_resume(sock) ==
    IF sock.closed THEN Raise("ClosedResourceError", "")
    ELSE IF sock.closing THEN Raise("BrokenResourceError", "")
    ELSE Ok(None)

(* the errors the sendto of the operating system raises in the model *)
SendErrors == {"OSError", "TypeError"}

(* the transport's sendto when the operating system's sendto raises err: an *)
(* OSError is handed to the protocol's error_received and nothing else      *)
(* happens; any other exception is fatal, the transport closes itself; the  *)
(* caller of sendto sees neither                                            *)
Transport_sendto_error(sock, err) ==
    IF err = "OSError" THEN sock ELSE [sock EXCEPT !.closing = TRUE]

(* a call that leaves read()/write() with outcome, through its listen scope *)
LeaveCall(k, pc, outcome, ls) ==
    LET left == leave_scope(ls, k, outcome)
    IN  /\ listeners' = left.listeners
        /\ calls' = [calls EXCEPT ![k] =
                        IF left.clean THEN Finished(pc, outcome)
                        ELSE Finished("failed", left.outcome)]

(* read()/write() up to the first await: the listener is registered, the    *)
(* frame is built and given to sendto; a frame that cannot be built, and a  *)
(* sendto that another call is suspended in, raise through the listen scope *)
StartCall(k, kind, register, command) ==
    /\ ~InFlight(calls[k])
    /\ LET entered == listen_enter(listeners, k)
           built == Connection_send(command)
           guard == UDPSocket_sendto_enter(
                        \E j \in Calls \ {k} :
                            calls[j].pc = "sending" /\ calls[j].sock = TheSocket)
           c == [pc |-> "sending", kind |-> kind, register |-> register,
                 value |-> IF kind = "write" THEN command.value ELSE U32(0, 0),
                 future |-> NewResponseFuture, frame |-> None, sock |-> TheSocket,
                 result |-> None]
       IN  IF ~built.ok THEN LeaveCall(k, "failed", built, entered)
           ELSE IF ~guard.ok THEN LeaveCall(k, "failed", guard, entered)
           ELSE /\ listeners' = entered
                /\ calls' = [calls EXCEPT ![k] = [c EXCEPT !.frame = built.val]]
    /\ heard' = [heard EXCEPT ![k] = None]
    /\ last' = NoDispatch
    /\ UNCHANGED <<udp, stream, rx, scopes>>
    /\ UNCHANGED codecVars
    /\ UNCHANGED futVars

StartRead(k, register) ==
    StartCall(k, "read", register, RequestRead(register))

StartWrite(k, register, value) ==
    StartCall(k, "write", register, RequestWrite(register, value))

(* what read()/write() returns from the reply its future holds *)
call_return(c) ==
    IF c.kind = "read"
    THEN IF "value" \in DOMAIN c.future.response
         THEN Ok(c.future.response.value)
         ELSE Raise("AttributeError",
                    "'" \o c.future.response.cls \o "' object has no attribute 'value'")
    ELSE Ok(None)

CanResume(c) == c.pc = "sending" \/ (c.pc = "waiting" /\ c.future.event)

(* the call's task is resumed at its await: after sendto, the datagram     *)
(* given to the transport, it goes on to await response.get(), unless the  *)
(* socket was closed or its transport is closing; after the event is set   *)
(* it leaves through the listen scope, with the value of the reply or with *)
(* the exception of reading it                                             *)
CallStep(k) ==
    /\ CanResume(calls[k])
    /\ IF calls[k].pc = "sending"
       THEN LET sent == UDPSocket_sendto_resume(SocketOf(calls[k].sock))
            IN  IF sent.ok
                THEN /\ calls' = [calls EXCEPT ![k].pc = "waiting", ![k].sock = NoSocket]
                     /\ UNCHANGED listeners
                ELSE LeaveCall(k, "failed", sent, listeners)
       ELSE LET value == call_return(calls[k])
            IN  LeaveCall(k, IF value.ok THEN "returned" ELSE "failed", value, listeners)
    /\ last' = NoDispatch
    /\ UNCHANGED <<udp, stream, rx, scopes, heard>>
    /\ UNCHANGED codecVars
    /\ UNCHANGED futVars

(* the call's task is resumed after sendto, and the sendto of the operating *)
(* system raises err under the transport of the Connection's socket (a      *)
(* socket that the Connection has replaced is closing, and its sendto does  *)
(* not get that far): the call goes on to await response.get() all the same *)
SendFail(k, err) ==
    /\ calls[k].pc = "sending"
    /\ UDPSocket_sendto_resume(SocketOf(calls[k].sock)).ok
    /\ udp' = Transport_sendto_error(udp, err)
    /\ calls' = [calls EXCEPT ![k].pc = "waiting", ![k].sock = NoSocket]
    /\ last' = NoDispatch
    /\ UNCHANGED <<listeners, stream, rx, scopes, heard>>
    /\ UNCHANGED codecVars
    /\ UNCHANGED futVars

(* a deadline of the caller around the call (a cancel scope) cancels the *)
(* call at its await                                                     *)
Cancel(k) ==
    /\ InFlight(calls[k])
    /\ LeaveCall(k, "cancelled", Raise("TimeoutError", ""), listeners)
    /\ last' = NoDispatch
    /\ UNCHANGED <<udp, stream, rx, scopes, heard>>
    /\ UNCHANGED codecVars
    /\ UNCHANGED futVars

(* no external listen scope is open *)
NoScopes == [open |-> 0, error |-> None]

(* a listen scope of the external listener is opened, also inside one that *)
(* is open already                                                         *)
ListenEnter ==
    /\ scopes.open < MaxScopes
    /\ listeners' = listen_enter(listeners, ExtListener)
    /\ scopes' = [open |-> scopes.open + 1, error |-> None]
    /\ last' = NoDispatch
    /\ UNCHANGED <<calls, udp, stream, rx, heard>>
    /\ UNCHANGED codecVars
    /\ UNCHANGED futVars

(* the innermost open listen scope of the external listener is left *)
ListenExit ==
    /\ scopes.open > 0
    /\ LET left == leave_scope(listeners, ExtListener, Ok(None))
       IN  /\ listeners' = left.listeners
           /\ scopes' = [open |-> scopes.open - 1,
                         error |-> IF left.clean THEN None ELSE left.outcome]
    /\ last' = NoDispatch
    /\ UNCHANGED <<calls, udp, stream, rx, heard>>
    /\ UNCHANGED codecVars
    /\ UNCHANGED futVars

(* the Connection is left (__aexit__, aclose): every socket it has made is *)
(* closed; what is queued stays queued                                     *)
Close ==
    /\ ~udp.closed
    /\ udp' = UDPSocket_aclose(udp)
    /\ rx' = [rx EXCEPT !.sock = IF rx.on = "old" THEN UDPSocket_aclose(@) ELSE @]
    /\ calls' = [k \in Calls |->
                   [calls[k] EXCEPT !.sock.sock =
                        IF calls[k].sock.on = "old" THEN UDPSocket_aclose(@) ELSE @]]
    /\ last' = NoDispatch
    /\ UNCHANGED <<listeners, stream, scopes, heard>>
    /\ UNCHANGED codecVars
    /\ UNCHANGED futVars

(* the Connection is entered again after its socket was closed or its     *)
(* transport closed itself: it makes a new socket; a task suspended in    *)
(* the socket it replaces keeps that one                                  *)
Open ==
    /\ udp.closing
    /\ udp' = NewSocket
    /\ rx' = IF rx.on = "udp" THEN OldSocket(udp) ELSE rx
    /\ calls' = [k \in Calls |->
                   IF calls[k].sock.on = "udp"
                   THEN [calls[k] EXCEPT !.sock = OldSocket([udp EXCEPT !.queue = <<>>])]
                   ELSE calls[k]]
    /\ last' = NoDispatch
    /\ UNCHANGED <<listeners, stream, scopes, heard>>
    /\ UNCHANGED codecVars
    /\ UNCHANGED futVars

(* a datagram arrives at the Connection's socket and is queued *)
Arrive(d) ==
    /\ ~udp.closing
    /\ Len(udp.queue) < MaxQueued
    /\ udp' = datagram_received(udp, d)
    /\ last' = NoDispatch
    /\ UNCHANGED <<listeners, calls, stream, rx, scopes, heard>>
    /\ UNCHANGED codecVars
    /\ UNCHANGED futVars

(* parse(d) of each datagram of the model, computed once *)
Parsed == [d \in Datagrams |-> parse(d)]

(* whether message carries the reply call c waits for *)
Carries(message, c) ==
    /\ "command" \in DOMAIN message
    /\ \/ c.kind = "read" /\ message.command.cls = "ResponseRead"
       \/ c.kind = "write" /\ message.command.cls = "ResponseWrite"
    /\ message.command.register = c.register

(* The consumer is resumed in the receive of its socket. With a datagram   *)
(* queued: through Connection.__aiter__ and Controller.__aiter__ to the    *)
(* consumer, with no await in between: parse; a ParseError is logged and   *)
(* the datagram dropped; any other exception leaves both generators and    *)
(* ends the consumer's iteration; a Message goes to every registered       *)
(* listener and then to the consumer. With none queued the error of        *)
(* receive ends the iteration.                                             *)
Receive ==
    /\ stream = "running"
    /\ UDPSocket_can_receive(SocketOf(rx))
    /\ LET got == UDPSocket_receive(SocketOf(rx))
           ended(how) == /\ stream' = how
                         /\ rx' = NoSocket
       IN  IF ~got.ok
           THEN /\ ended(IF got.exc = "ClosedResourceError" THEN "closed" ELSE "broken")
                /\ last' = NoDispatch
                /\ UNCHANGED <<calls, udp, heard>>
           ELSE LET d == got.val
                    r == IF d \in DOMAIN Parsed THEN Parsed[d] ELSE parse(d)
                    popped(sock) == [sock EXCEPT !.queue = Tail(@)]
                    crash == ~r.ok /\ r.exc # "ParseError"
                IN  /\ udp' = IF rx.on = "udp" THEN popped(udp) ELSE udp
                    /\ IF crash THEN ended("crashed")
                       ELSE /\ UNCHANGED stream
                            /\ rx' = IF rx.on = "old" THEN OldSocket(popped(rx.sock)) ELSE rx
                    /\ IF r.ok
                       THEN LET item == dispatch_item(r.val)
                            IN  /\ calls' = [k \in Calls |->
                                               IF k \in listeners
                                               THEN call_listener(calls[k], item)
                                               ELSE calls[k]]
                                /\ last' = [packet |-> d, outcome |-> "emitted",
                                            message |-> r.val, registered |-> listeners,
                                            invoked |-> [l \in listeners |-> 1],
                                            arg |-> item, emitted |-> item]
                                /\ heard' = [k \in Calls |->
                                               IF /\ heard[k] = None
                                                  /\ k \in listeners
                                                  /\ calls[k].pc = "waiting"
                                                  /\ Carries(r.val, calls[k])
                                               THEN r.val.command ELSE heard[k]]
                       ELSE /\ last' = [packet |-> d,
                                        outcome |-> IF r.exc = "ParseError" THEN "dropped"
                                                    ELSE "crashed",
                                        message |-> None, registered |-> listeners,
                                        invoked |-> <<>>, arg |-> None, emitted |-> None]
                            /\ UNCHANGED <<calls, heard>>
    /\ UNCHANGED <<listeners, scopes>>
    /\ UNCHANGED codecVars
    /\ UNCHANGED futVars

CodecIdle ==
    /\ h_pc = "off"
    /\ h_in = None
    /\ h_enc = None
    /\ h_tamper = "none"
    /\ h_data = <<>>
    /\ h_out = None
    /\ h_re = None
    /\ h_more = None

(* no ResponseFuture is exercised on its own *)
FutureIdle ==
    /\ fut = NewResponseFuture
    /\ getter = [pc |-> "off", found |-> FALSE, result |-> None]
    /\ setlog = <<>>

Init ==
    /\ listeners = {}
    /\ calls = [k \in Calls |-> IdleCall]
    /\ udp = NewSocket
    /\ stream = "running"
    /\ rx = TheSocket
    /\ scopes = NoScopes
    /\ last = NoDispatch
    /\ heard = [k \in Calls |-> None]
    /\ CodecIdle
    /\ FutureIdle

Next ==
    \/ \E k \in Calls, r \in ReadRegisters : StartRead(k, r)
    \/ \E k \in Calls, r \in WriteRegisters : StartWrite(k, r, CallValue)
    \/ \E k \in Calls : CallStep(k)
    \/ \E k \in Calls, err \in SendErrors : SendFail(k, err)
    \/ \E k \in Calls : Cancel(k)
    \/ ListenEnter
    \/ ListenExit
    \/ Close
    \/ Open
    \/ \E d \in Datagrams : Arrive(d)
    \/ Receive

Spec == Init /\ [][Next]_vars

(***************************************************************************)
(* The codec on its own: an input is chosen, encoded, decoded and encoded  *)
(* again, one call per step.                                               *)
(***************************************************************************)
InMessage(m) ==
    [kind |-> "message", message |-> m, command |-> None,
     frame |-> [start |-> 0, address |-> 0, kind |-> 0, payload |-> <<>>], data |-> <<>>]

InCommand(c) ==
    [kind |-> "command", message |-> None, command |-> c,
     frame |-> [start |-> 0, address |-> 0, kind |-> 0, payload |-> <<>>], data |-> <<>>]

(* a frame as the peer sends it: start byte, address (Master only), kind, payload *)
InFrame(start, address, kind, payload) ==
    [kind |-> "frame", message |-> None, command |-> None,
     frame |-> [start |-> start, address |-> address, kind |-> kind, payload |-> payload],
     data |-> IF start = 92 THEN WireMaster(address, kind, payload)
              ELSE WireSlave(kind, payload)]

Registers16 == {0, 107, 192, 4660, 12345, 49152, 65535}

Values32 == {U32(0, 0), U32(0, 192), U32(15, 4614), U32(65535, 65535)}

Dicts ==
    { <<>>, <<<<1234, 5678>>, <<4321, 8765>>>>, <<<<65535, 1>>>>,
      <<<<1, 2>>, <<65535, 0>>>> }

CodecCommands ==
    {RequestRead(r) : r \in Registers16}
    \cup {RequestWrite(r, v) : r \in {0, 192, 12345, 65535}, v \in Values32}
    \cup {ResponseRead(r, v) : r \in {0, 4660, 65535}, v \in {U32(0, 0), U32(65535, 65535)}}
    \cup {ResponseWrite(r) : r \in {0, 4660, 65535}}
    \cup {ResponseData(d) : d \in Dicts}
    \cup {ResponseRmu(b) : b \in {<<>>, <<0, 128>>}}
    \cup {CommandUnknown(96, <<>>), CommandUnknown(160, <<0, 92>>), CommandUnknown(160, <<192>>)}
    \cup {RequestReadNull, RequestWriteNull,
          ResponseProduct(<<1, 36, 227>>, <<70, 49, 49, 53, 53, 45, 49, 54>>)}

Addresses == {0, 32, 92, 255}

CodecMessages ==
    {MessageSlave(c) : c \in CodecCommands}
    \cup {MessageMaster(a, c) : a \in Addresses, c \in CodecCommands}

(* the payload of a kind byte on its own, as parse_payload gets it *)
InPayload(kind, payload) ==
    [kind |-> "payload", message |-> None, command |-> None,
     frame |-> [start |-> 0, address |-> 0, kind |-> kind, payload |-> payload],
     data |-> payload]

(* the bytes of a datagram, whatever they are *)
InRaw(data) ==
    [kind |-> "raw", message |-> None, command |-> None,
     frame |-> [start |-> 0, address |-> 0, kind |-> 0, payload |-> <<>>], data |-> data]

(* bytes and the key they are stuffed with *)
InStuff(data, key) ==
    [kind |-> "stuff", message |-> None, command |-> None,
     frame |-> [start |-> key, address |-> 0, kind |-> 0, payload |-> <<>>], data |-> data]

(* a Master frame whose length byte and checksum are those of the payload as *)
(* it is on the wire, with every 5C of it doubled                            *)
InCounted(address, kind, payload) ==
    [kind |-> "counted", message |-> None, command |-> None,
     frame |-> [start |-> 92, address |-> address, kind |-> kind, payload |-> payload],
     data |-> LET wire == escape(<<0>> \o payload, 92)
                  body == <<address, kind, Len(wire) - 1>> \o Tail(wire)
              IN  <<92, 0>> \o body \o <<calculate_checksum(body, 92)>>]

(* all sequences of at most n elements of S *)
SeqsUpTo(S, n) == UNION {[1 .. m -> S] : m \in 0 .. n}

(* every kind byte, in a Master and in a Slave frame *)
KindSweep ==
    {InFrame(start, 32, kind, payload) :
        start \in {92, 192}, kind \in 0 .. 255, payload \in {<<>>, <<0, 92, 192, 255>>}}

(* the frames that are damaged before they are parsed *)
TamperInputs ==
    { InFrame(192, 0, 105, <<52, 18>>),
      InFrame(92, 32, 106, <<52, 18, 100, 0, 0, 0>>),
      InFrame(92, 32, 107, <<>>),
      InFrame(192, 0, 160, <<0, 192>>),
      InFrame(92, 92, 160, <<92>>) }

(* read and write requests with every payload length from 0 to MaxRequestLen *)
MaxRequestLen == 7

RequestFrames ==
    {InFrame(start, 32, kind, payload) :
        start \in {92, 192}, kind \in {105, 107}, payload \in SeqsUpTo({18, 192}, MaxRequestLen)}

(* bulk data payloads of every length from 0 to MaxBulkLen *)
MaxBulkLen == 8

BulkPayloads == {InPayload(104, payload) : payload \in SeqsUpTo({0, 1, 255}, MaxBulkLen)}

(* datagrams of every first byte *)
RawDatagrams ==
    {InRaw(<<b>> \o rest) :
        b \in 0 .. 255,
        rest \in {<<>>, <<6>>, <<0, 32, 107, 0, 75>>, <<0, 32, 107, 0, 75, 92>>,
                  <<105, 0, 169>>, <<92, 192, 21>>}}

(* the frames of test_parse that are not made of address, kind and payload *)
TestFrames ==
    { InRaw(<<92, 0, 2, 160, 3, 0, 92, 92, 161>>),
      InRaw(<<92, 0, 32, 107, 0, 75, 168>>),
      InRaw(<<92, 0, 32, 107, 0, 75>>),
      InRaw(<<192, 105, 2, 52, 18, 141>>) }

(* Master frames that count the stuffed bytes; the first is the one of test_parse *)
CountedFrames ==
    {InCounted(address, 160, payload) :
        address \in {2, 32}, payload \in {<<0, 92>>, <<92>>, <<92, 92>>, <<1, 92, 2>>}}

(* the valid Slave frames of which one payload byte is changed: with and    *)
(* without the start byte in the payload, with and without the checksum 0C *)
CorruptInputs ==
    { InFrame(192, 0, 105, <<52, 18>>),
      InFrame(192, 0, 105, <<107, 0>>),
      InFrame(192, 0, 105, <<167, 0>>),
      InFrame(192, 0, 160, <<0, 192>>),
      InFrame(192, 0, 160, <<192, 174>>),
      InFrame(192, 0, 107, <<57, 48, 6, 18, 15, 0>>) }

(* byte sequences of at most MaxStuffLen bytes and the keys they are stuffed with *)
MaxStuffLen == 5

StuffInputs ==
    {InStuff(data, key) : data \in SeqsUpTo({0, 92, 192}, MaxStuffLen), key \in {0, 92, 192}}

(* Messages whose checksummed bytes XOR to the start byte of their frame *)
CollisionMessages ==
    { MessageSlave(RequestRead(107)),
      MessageSlave(CommandUnknown(96, <<2, 96>>)),
      MessageMaster(32, RequestRead(23)),
      MessageMaster(32, CommandUnknown(160, <<1, 223>>)) }

(* the bytes that follow a frame in its datagram *)
Trailings == {<<168>>, <<92>>, <<192>>, <<92, 92>>, <<192, 0>>, <<0, 92, 192, 255, 6>>}

CodecInit ==
    /\ listeners = {}
    /\ calls = [k \in Calls |-> IdleCall]
    /\ udp = NewSocket
    /\ stream = "running"
    /\ rx = TheSocket
    /\ scopes = NoScopes
    /\ last = NoDispatch
    /\ heard = [k \in Calls |-> None]
    /\ h_in \in {InMessage(m) : m \in CodecMessages \cup CollisionMessages}
                \cup {InCommand(c) : c \in CodecCommands}
                \cup KindSweep \cup TamperInputs
                \cup RequestFrames \cup BulkPayloads \cup RawDatagrams \cup TestFrames
                \cup StuffInputs \cup CountedFrames \cup CorruptInputs
    /\ h_pc = CASE h_in.kind \in {"frame", "raw", "counted"} -> "wire"
                 [] h_in.kind = "payload" -> "rawpayload"
                 [] h_in.kind = "stuff" -> "stuff"
                 [] OTHER -> "input"
    /\ h_enc = None
    /\ h_tamper = "none"
    /\ h_data = h_in.data
    /\ h_out = None
    /\ h_re = None
    /\ h_more = None
    /\ FutureIdle

(* m.to_bytes() of the input Message *)
EncodeMessage ==
    /\ h_pc = "input"
    /\ h_in.kind = "message"
    /\ h_enc' = Message_to_bytes(h_in.message)
    /\ h_pc' = IF h_enc'.ok THEN "wire" ELSE "done"
    /\ h_data' = IF h_enc'.ok THEN h_enc'.val ELSE h_data
    /\ UNCHANGED <<h_in, h_tamper, h_out, h_re, h_more>>
    /\ UNCHANGED ctlVars
    /\ UNCHANGED futVars

(* c.to_bytes() of the input Command *)
EncodePayload ==
    /\ h_pc = "input"
    /\ h_in.kind = "command"
    /\ h_enc' = Command_to_bytes(h_in.command)
    /\ h_pc' = IF h_enc'.ok THEN "payload" ELSE "done"
    /\ h_data' = IF h_enc'.ok THEN h_enc'.val ELSE h_data
    /\ UNCHANGED <<h_in, h_tamper, h_out, h_re, h_more>>
    /\ UNCHANGED ctlVars
    /\ UNCHANGED futVars

(* parse_payload(c.command, payload) *)
DecodePayload ==
    /\ h_pc = "payload"
    /\ h_out' = parse_payload(h_in.command.command, h_data)
    /\ h_pc' = "done"
    /\ UNCHANGED <<h_in, h_enc, h_tamper, h_data, h_re, h_more>>
    /\ UNCHANGED ctlVars
    /\ UNCHANGED futVars

(* the checksum byte, the last of the frame, arrives as b *)
TamperChecksum(b) ==
    /\ h_pc = "wire"
    /\ h_in \in TamperInputs
    /\ h_tamper = "none"
    /\ b # h_data[Len(h_data)]
    /\ h_data' = [h_data EXCEPT ![Len(h_data)] = b]
    /\ h_tamper' = "checksum"
    /\ UNCHANGED <<h_pc, h_in, h_enc, h_out, h_re, h_more>>
    /\ UNCHANGED ctlVars
    /\ UNCHANGED futVars

(* byte i of the frame, one of its payload bytes, arrives as b *)
CorruptPayload(i, b) ==
    /\ h_pc = "wire"
    /\ h_in \in CorruptInputs
    /\ h_tamper = "none"
    /\ i > 3
    /\ i < Len(h_data)
    /\ b # h_data[i]
    /\ h_data' = [h_data EXCEPT ![i] = b]
    /\ h_tamper' = "payload"
    /\ UNCHANGED <<h_pc, h_in, h_enc, h_out, h_re, h_more>>
    /\ UNCHANGED ctlVars
    /\ UNCHANGED futVars

(* only the first n bytes of the frame arrive *)
Truncate(n) ==
    /\ h_pc = "wire"
    /\ h_in \in TamperInputs
    /\ h_tamper = "none"
    /\ n < Len(h_data)
    /\ h_data' = SubSeq(h_data, 1, n)
    /\ h_tamper' = "truncated"
    /\ UNCHANGED <<h_pc, h_in, h_enc, h_out, h_re, h_more>>
    /\ UNCHANGED ctlVars
    /\ UNCHANGED futVars

(* parse(data) *)
ParseWire ==
    /\ h_pc = "wire"
    /\ h_out' = parse(h_data)
    /\ h_pc' = IF h_out'.ok THEN "parsed" ELSE "done"
    /\ UNCHANGED <<h_in, h_enc, h_tamper, h_data, h_re, h_more>>
    /\ UNCHANGED ctlVars
    /\ UNCHANGED futVars

(* to_bytes() of the Message parse returned *)
ReEncode ==
    /\ h_pc = "parsed"
    /\ h_re' = Message_to_bytes(h_out.val)
    /\ h_pc' = "done"
    /\ UNCHANGED <<h_in, h_enc, h_tamper, h_data, h_out, h_more>>
    /\ UNCHANGED ctlVars
    /\ UNCHANGED futVars

(* parse_payload(kind, payload) of the bytes as they are *)
DecodeRaw ==
    /\ h_pc = "rawpayload"
    /\ h_out' = parse_payload(h_in.frame.kind, h_data)
    /\ h_pc' = "done"
    /\ UNCHANGED <<h_in, h_enc, h_tamper, h_data, h_re, h_more>>
    /\ UNCHANGED ctlVars
    /\ UNCHANGED futVars

(* parse(data + t) of a datagram that parsed, with the bytes t after it *)
ParseExtended(t) ==
    /\ h_pc = "parsed"
    /\ h_tamper = "none"
    /\ h_more' = [data |-> h_data \o t, out |-> parse(h_data \o t)]
    /\ h_pc' = "done"
    /\ UNCHANGED <<h_in, h_enc, h_tamper, h_data, h_out, h_re>>
    /\ UNCHANGED ctlVars
    /\ UNCHANGED futVars

(* bytes(escape(data, key)) *)
Escape ==
    /\ h_pc = "stuff"
    /\ h_enc' = Ok(escape(h_data, h_in.frame.start))
    /\ h_pc' = "stuffed"
    /\ UNCHANGED <<h_in, h_tamper, h_data, h_out, h_re, h_more>>
    /\ UNCHANGED ctlVars
    /\ UNCHANGED futVars

(* bytes(unescape(stuffed, key)) of what escape gave *)
Unescape ==
    /\ h_pc = "stuffed"
    /\ h_out' = Ok(unescape(h_enc.val, h_in.frame.start))
    /\ h_pc' = "done"
    /\ UNCHANGED <<h_in, h_enc, h_tamper, h_data, h_re, h_more>>
    /\ UNCHANGED ctlVars
    /\ UNCHANGED futVars

(* bytes(unescape(data, key)) of the bytes as they are *)
UnescapeRaw ==
    /\ h_pc = "stuff"
    /\ h_out' = Ok(unescape(h_data, h_in.frame.start))
    /\ h_pc' = "done"
    /\ UNCHANGED <<h_in, h_enc, h_tamper, h_data, h_re, h_more>>
    /\ UNCHANGED ctlVars
    /\ UNCHANGED futVars

CodecNext ==
    \/ EncodeMessage
    \/ EncodePayload
    \/ DecodePayload
    \/ DecodeRaw
    \/ \E t \in Trailings : ParseExtended(t)
    \/ Escape
    \/ Unescape
    \/ UnescapeRaw
    \/ \E b \in 0 .. 255 : TamperChecksum(b)
    \/ \E n \in 0 .. 16 : Truncate(n)
    \/ \E i \in 0 .. 16, b \in 0 .. 255 : CorruptPayload(i, b)
    \/ ParseWire
    \/ ReEncode

SpecCodec == CodecInit /\ [][CodecNext]_vars

(***************************************************************************)
(* The calls without a deadline around them, under the scheduling of the   *)
(* event loop: a task whose await has completed is resumed.                *)
(***************************************************************************)
NextNoDeadline ==
    \/ \E k \in Calls, r \in ReadRegisters : StartRead(k, r)
    \/ \E k \in Calls, r \in WriteRegisters : StartWrite(k, r, CallValue)
    \/ \E k \in Calls : CallStep(k)
    \/ \E k \in Calls, err \in SendErrors : SendFail(k, err)
    \/ ListenEnter
    \/ ListenExit
    \/ Close
    \/ Open
    \/ \E d \in Datagrams : Arrive(d)
    \/ Receive

SpecLive ==
    /\ Init
    /\ [][NextNoDeadline]_vars
    /\ \A k \in Calls : WF_vars(CallStep(k))

(***************************************************************************)
(* A ResponseFuture on its own: one task awaits get(), set() is called     *)
(* with one response after the other, before or while the task waits.      *)
(***************************************************************************)
MaxSets == 2

FutureResponses ==
    {ResponseRead(1234, v) : v \in {U32(0, 0), U32(0, 100), U32(0, 101), U32(0, 5678), U32(15, 4614)}}
    \cup {ResponseWrite(1234)}

FutureInit ==
    /\ listeners = {}
    /\ calls = [k \in Calls |-> IdleCall]
    /\ udp = NewSocket
    /\ stream = "running"
    /\ rx = TheSocket
    /\ scopes = NoScopes
    /\ last = NoDispatch
    /\ heard = [k \in Calls |-> None]
    /\ CodecIdle
    /\ fut = NewResponseFuture
    /\ getter = [pc |-> "idle", found |-> FALSE, result |-> None]
    /\ setlog = <<>>

(* response.set(x) *)
FutureSet(x) ==
    /\ Len(setlog) < MaxSets
    /\ fut' = ResponseFuture_set(fut, x)
    /\ setlog' = Append(setlog, x)
    /\ UNCHANGED getter
    /\ UNCHANGED ctlVars
    /\ UNCHANGED codecVars

(* the task calls response.get() and is suspended in event.wait() *)
GetStart ==
    /\ getter.pc = "idle"
    /\ getter' = [getter EXCEPT !.pc = "waiting", !.found = fut.event]
    /\ UNCHANGED <<fut, setlog>>
    /\ UNCHANGED ctlVars
    /\ UNCHANGED codecVars

(* the event is set: the task is resumed and get() returns self.response *)
GetResume ==
    /\ getter.pc = "waiting"
    /\ fut.event
    /\ getter' = [getter EXCEPT !.pc = "returned", !.result = Ok(ResponseFuture_get(fut))]
    /\ UNCHANGED <<fut, setlog>>
    /\ UNCHANGED ctlVars
    /\ UNCHANGED codecVars

FutureNext ==
    \/ \E x \in FutureResponses : FutureSet(x)
    \/ GetStart
    \/ GetResume

SpecFuture == FutureInit /\ [][FutureNext]_vars

(* the event loop resumes a task whose event is set *)
SpecFutureLive == FutureInit /\ [][FutureNext]_vars /\ WF_vars(GetResume)

(***************************************************************************)
(* The claims                                                              *)
(***************************************************************************)
(* what a call returns for the reply it waited for *)
ReturnFor(reply) ==
    IF reply.cls = "ResponseRead" THEN Ok(reply.value) ELSE Ok(None)

(* C1: once a datagram carrying the read-response (write-response) for the *)
(* register of an awaiting read (write) has been received, that call       *)
(* eventually returns, a read with the value of the reply.                 *)
C1_MatchingReplyReturns ==
    \A k \in Calls :
        (calls[k].pc = "waiting" /\ heard[k] # None)
            ~> (calls[k].pc = "returned" /\ calls[k].result = ReturnFor(heard[k]))

(* C2: a pending call is resolved only by the reply of its kind for its    *)
(* register; any other message that is dispatched leaves the pending call  *)
(* as it was, raises nothing, and reaches every registered listener and    *)
(* the consumer.                                                           *)
C2_NoCrossTalk ==
    [][\A k \in Calls :
         (InFlight(calls[k]) /\ ~calls[k].future.event) =>
            /\ calls'[k].future.event =>
                  /\ last'.outcome = "emitted"
                  /\ Carries(last'.message, calls[k])
            /\ (last' # last /\ last'.outcome = "emitted"
                    /\ ~Carries(last'.message, calls[k])) =>
                  /\ calls'[k] = calls[k]
                  /\ stream' = "running"
                  /\ last'.invoked = [l \in listeners |-> 1]
                  /\ last'.emitted # None
      ]_vars

(* C2 witness: a read is still awaiting after a read-response for another  *)
(* register went to its listener, to an external listener and on to the    *)
(* consumer.                                                               *)
C2_Witness ==
    \E k \in Calls :
        /\ calls[k].pc = "waiting"
        /\ calls[k].kind = "read"
        /\ ~calls[k].future.event
        /\ last.outcome = "emitted"
        /\ {k, ExtListener} \subseteq last.registered
        /\ last.message.cls = "MessageMaster"
        /\ last.message.command.cls = "ResponseRead"
        /\ last.message.command.register # calls[k].register
        /\ last.emitted # None

(* C3: the listener set holds exactly the listeners of the calls in flight, *)
(* besides the listener of an open external listen scope, and the external  *)
(* listener is not in it once no external listen scope is open.             *)
C3_ListenersOfCallsInFlight ==
    /\ listeners \ {ExtListener} = {k \in Calls : InFlight(calls[k])}
    /\ scopes.open = 0 => ExtListener \notin listeners

(* C3 witness: one call was cancelled by its deadline, one failed in send  *)
(* because the other was suspended in it, and neither has left a listener  *)
(* behind.                                                                 *)
C3_Witness ==
    \E j, k \in Calls :
        /\ calls[j].pc = "cancelled"
        /\ calls[k].pc = "failed"
        /\ calls[k].result.exc = "BusyResourceError"
        /\ listeners = {}

(* C4: every message that arrives goes to each listener registered at that *)
(* moment exactly once, as the Command the Message carries, and that       *)
(* Command is then emitted to the consumer.                                *)
C4_FanOutOfTheCommand ==
    (last.outcome = "emitted" /\ "command" \in DOMAIN last.message) =>
        /\ last.invoked = [l \in last.registered |-> 1]
        /\ last.arg = last.message.command
        /\ last.emitted = last.message.command

(* C5: whatever bytes the datagrams hold, the stream and the dispatch loop *)
(* keep running until the Connection is closed, and a datagram that does   *)
(* not parse is dropped.                                                   *)
C5_MalformedNeverTerminates ==
    /\ stream # "crashed"
    /\ last.outcome \in {"none", "emitted", "dropped"}

(* little-endian bytes of a 16-bit and of a 32-bit number *)
LE16(n) == <<n % 256, n \div 256>>

LE32(v) == LE16(v.lo) \o LE16(v.hi)

(* the payload the frame format gives a read or a write request *)
RequestPayload(c) ==
    IF c.cls = "RequestRead" THEN LE16(c.register)
    ELSE LE16(c.register) \o LE32(c.value)

(* C6: MessageSlave(c).to_bytes() of a read or write request is the frame  *)
(* C0, kind, length, payload, checksum with every C0 after the first byte  *)
(* doubled, parse of it gives MessageSlave(c) back, and encoding the       *)
(* Message parsed from a valid Slave frame gives the frame back.           *)
C6_SlaveRoundTrip ==
    /\ (/\ h_in.kind = "message"
        /\ h_in.message.cls = "MessageSlave"
        /\ h_in.message.command.cls \in {"RequestRead", "RequestWrite"}
        /\ h_pc # "input") =>
            /\ h_enc = Ok(WireSlave(h_in.message.command.command,
                                    RequestPayload(h_in.message.command)))
            /\ h_out # None => (h_out.ok /\ MessageEq(h_out.val, h_in.message))
    /\ (/\ h_in.kind = "frame"
        /\ h_in.frame.start = 192
        /\ h_tamper = "none"
        /\ h_re # None) => h_re = Ok(h_in.data)

(* C7: MessageMaster(address, c).to_bytes() is 5C 00, address, kind,       *)
(* length, payload, checksum (key 5C, over address to end of payload), and *)
(* parse of it gives MessageMaster(address, c) back.                       *)
C7_MasterEncoding ==
    (/\ h_in.kind = "message"
     /\ h_in.message.cls = "MessageMaster"
     /\ h_pc # "input") =>
        LET payload == Command_to_bytes(h_in.message.command).val
            body == <<h_in.message.address, h_in.message.command.command, Len(payload)>>
                        \o payload
        IN  /\ h_enc.ok
            /\ h_enc.val = <<92, 0>> \o body \o <<calculate_checksum(body, 92)>>
            /\ h_out # None => (h_out.ok /\ MessageEq(h_out.val, h_in.message))

(* C8: for a Command c of each variant, parse_payload(c.command,           *)
(* c.to_bytes()) is a Command equal to c.                                  *)
C8_PayloadRoundTrip ==
    (/\ h_in.kind = "command"
     /\ h_in.command.cls \in {"RequestRead", "RequestWrite", "ResponseRead",
                              "ResponseWrite", "ResponseData", "ResponseRmu",
                              "CommandUnknown"}
     /\ h_pc = "done") =>
        /\ h_enc.ok
        /\ h_out.ok
        /\ CommandEq(h_out.val, h_in.command)

(* the Message with the Unknown command a frame of an unrecognized kind gives *)
UnknownOf(f) ==
    IF f.start = 92
    THEN MessageMaster(f.address, [cls |-> "CommandUnknown", command |-> f.kind, data |-> f.payload])
    ELSE MessageSlave([cls |-> "CommandUnknown", command |-> f.kind, data |-> f.payload])

(* C9 as stated: a frame that passes the length and checksum checks and    *)
(* whose kind is none of 68, 69, 6A, 6B, 6C, 62 parses to a Message with   *)
(* the Unknown command, tag the kind byte, data the payload.               *)
C9_UnknownKindAsStated ==
    (/\ h_in.kind = "frame"
     /\ h_tamper = "none"
     /\ h_out # None
     /\ h_in.frame.kind \notin {104, 105, 106, 107, 108, 98}) =>
        h_out = Ok(UnknownOf(h_in.frame))

(* C9: a frame that passes the length and checksum checks and whose kind   *)
(* is none of 68, 69, 6A, 6B, 6C, 62, 6D parses to a Message with the      *)
(* Unknown command, tag the kind byte, data the payload.                   *)
C9_UnknownKind ==
    (/\ h_in.kind = "frame"
     /\ h_tamper = "none"
     /\ h_out # None
     /\ h_in.frame.kind \notin {104, 105, 106, 107, 108, 98, 109}) =>
        h_out = Ok(UnknownOf(h_in.frame))

(* C9 witness: a Master frame of kind A0, with both start bytes in its     *)
(* payload, has been parsed to the Unknown command.                        *)
C9_Witness ==
    /\ h_in.kind = "frame"
    /\ h_in.frame.start = 92
    /\ h_in.frame.kind = 160
    /\ h_in.frame.payload = <<0, 92, 192, 255>>
    /\ h_out = Ok(MessageMaster(32, CommandUnknown(160, <<0, 92, 192, 255>>)))

(* the length byte is there after un-stuffing and declares more payload    *)
(* than the bytes that follow it                                           *)
DeclaredLengthExceeds(data) ==
    /\ data # <<>>
    /\ data[1] \in {92, 192}
    /\ LET u == unescape(data, data[1])
           at == IF data[1] = 92 THEN 5 ELSE 3
       IN  Len(u) >= at /\ u[at] > Len(u) - at

(* C10 as stated: a frame whose declared length exceeds the bytes there    *)
(* raises the length ParseError, a valid frame with another checksum byte  *)
(* raises the checksum ParseError, no bytes raise the empty-packet         *)
(* ParseError.                                                             *)
C10_DamagedRejectedAsStated ==
    /\ (h_tamper = "truncated" /\ h_out # None /\ DeclaredLengthExceeds(h_data)) =>
            h_out = Raise("ParseError", "Invalid packet length")
    /\ (h_tamper = "checksum" /\ h_out # None) =>
            h_out = Raise("ParseError", "Invalid checksum")
    /\ (h_tamper = "truncated" /\ h_out # None /\ h_data = <<>>) =>
            h_out = Raise("ParseError", "Empty packet")

(* C10: as stated, but a frame that ends with its checksum byte and gets   *)
(* the start byte there raises the length ParseError: un-stuffing takes    *)
(* the byte for an escape and the frame comes out one byte short.          *)
C10_DamagedRejected ==
    /\ (h_tamper = "truncated" /\ h_out # None /\ DeclaredLengthExceeds(h_data)) =>
            h_out = Raise("ParseError", "Invalid packet length")
    /\ (h_tamper = "checksum" /\ h_out # None) =>
            h_out = Raise("ParseError",
                          IF h_data[Len(h_data)] = h_data[1]
                          THEN "Invalid packet length" ELSE "Invalid checksum")
    /\ (h_tamper = "truncated" /\ h_out # None /\ h_data = <<>>) =>
            h_out = Raise("ParseError", "Empty packet")

(* C10 witness: a Slave frame whose checksum byte arrived as C0 has been   *)
(* refused for its length.                                                 *)
C10_Witness ==
    /\ h_tamper = "checksum"
    /\ h_in.frame.start = 192
    /\ h_data[Len(h_data)] = 192
    /\ h_out = Raise("ParseError", "Invalid packet length")

(* the Message a frame gives for the Command its payload decodes to *)
MessageOf(f, c) ==
    IF f.start = 92 THEN MessageMaster(f.address, c) ELSE MessageSlave(c)

(* C11: a read-request or write-request frame with an empty payload parses *)
(* to the null request; a read request with 2 payload bytes parses to the  *)
(* read of the little-endian register, a write request with 6 payload      *)
(* bytes to the write of the little-endian register and value; every other *)
(* payload length raises the length ParseError.                            *)
C11_RequestByLength ==
    (/\ h_in.kind = "frame"
     /\ h_in.frame.kind \in {105, 107}
     /\ h_tamper = "none"
     /\ h_out # None) =>
        LET f == h_in.frame
            p == f.payload
        IN  CASE p = <<>> ->
                    h_out = Ok(MessageOf(f, IF f.kind = 105 THEN RequestReadNull
                                            ELSE RequestWriteNull))
              [] f.kind = 105 /\ Len(p) = 2 ->
                    h_out = Ok(MessageOf(f, RequestRead(p[1] + 256 * p[2])))
              [] f.kind = 107 /\ Len(p) = 6 ->
                    h_out = Ok(MessageOf(f, RequestWrite(p[1] + 256 * p[2],
                                   U32(p[5] + 256 * p[6], p[3] + 256 * p[4]))))
              [] OTHER ->
                    /\ ~h_out.ok
                    /\ h_out.exc = "ParseError"
                    /\ h_out.msg = (IF f.kind = 105 THEN "Length is not 2"
                                    ELSE "Length is not 6")

(* C11 witness: a Slave write request whose 6 payload bytes hold the start *)
(* byte has been parsed to the write of its register and value.            *)
C11_Witness ==
    /\ h_in.kind = "frame"
    /\ h_in.frame.start = 192
    /\ h_in.frame.kind = 107
    /\ h_in.frame.payload = <<18, 192, 18, 18, 192, 192>>
    /\ h_out = Ok(MessageSlave(RequestWrite(49170, U32(49344, 4626))))

(* the 4-byte groups of a payload as pairs of register and value, in order *)
GroupsOf(p) ==
    [i \in 1 .. (Len(p) \div 4) |->
        <<p[4 * i - 3] + 256 * p[4 * i - 2], p[4 * i - 1] + 256 * p[4 * i]>>]

(* C12 as stated: a bulk-data payload whose length is not a multiple of 4  *)
(* raises the length ParseError; otherwise the map holds exactly the       *)
(* groups whose register is not FFFF, and never the key FFFF.              *)
C12_BulkDecodeAsStated ==
    (/\ h_in.kind = "payload"
     /\ h_in.frame.kind = 104
     /\ h_out # None) =>
        LET g == GroupsOf(h_data)
        IN  IF Len(h_data) % 4 # 0
            THEN h_out = Raise("ParseError", "Length is not a multiple of 4")
            ELSE /\ h_out.ok
                 /\ h_out.val.cls = "ResponseData"
                 /\ DictItems(h_out.val.parameters) = {g[i] : i \in {j \in DOMAIN g : g[j][1] # 65535}}
                 /\ 65535 \notin DictKeys(h_out.val.parameters)

(* C12: as stated, but of the groups that have the same register the map   *)
(* holds the last one only.                                                *)
C12_BulkDecode ==
    (/\ h_in.kind = "payload"
     /\ h_in.frame.kind = 104
     /\ h_out # None) =>
        LET g == GroupsOf(h_data)
            kept == {i \in DOMAIN g :
                        /\ g[i][1] # 65535
                        /\ \A j \in DOMAIN g : j > i => g[j][1] # g[i][1]}
        IN  IF Len(h_data) % 4 # 0
            THEN h_out = Raise("ParseError", "Length is not a multiple of 4")
            ELSE /\ h_out.ok
                 /\ h_out.val.cls = "ResponseData"
                 /\ DictItems(h_out.val.parameters) = {g[i] : i \in kept}
                 /\ Len(h_out.val.parameters) = Cardinality(kept)
                 /\ 65535 \notin DictKeys(h_out.val.parameters)

(* C12 witness: a payload of a group for register 1 and a group for FFFF   *)
(* has been decoded to the map of register 1 alone.                        *)
C12_Witness ==
    /\ h_in.kind = "payload"
    /\ h_in.frame.kind = 104
    /\ h_data = <<1, 0, 0, 1, 255, 255, 1, 0>>
    /\ h_out = Ok(ResponseData(<<<<1, 256>>>>))

(* C13: parse of a datagram that is not empty gives a Master message only  *)
(* if the first byte is 5C and a Slave message only if it is C0, and these *)
(* are the only first bytes it raises for; first byte 06 gives the ACK and *)
(* 15 the NAK whatever follows; any other first byte gives the Unknown     *)
(* message of the first byte and the bytes after it.                       *)
C13_ClassifiedByFirstByte ==
    (/\ h_in.kind \in {"raw", "frame", "message"}
     /\ h_out # None
     /\ h_data # <<>>) =>
        LET b == h_data[1]
        IN  /\ h_out.ok =>
                  /\ (h_out.val.cls = "MessageMaster") <=> (b = 92)
                  /\ (h_out.val.cls = "MessageSlave") <=> (b = 192)
            /\ ~h_out.ok => b \in {92, 192}
            /\ b = 6 => h_out = Ok(MessageAck)
            /\ b = 21 => h_out = Ok(MessageNak)
            /\ b \notin {92, 192, 6, 21} =>
                  h_out = Ok(MessageUnknown(b, SubSeq(h_data, 2, Len(h_data))))

(* C13 witness: a datagram of 06 followed by the bytes of a Master frame   *)
(* after its start byte has been parsed to the bare ACK.                   *)
C13_Witness ==
    /\ h_in.kind = "raw"
    /\ h_data = <<6, 0, 32, 107, 0, 75>>
    /\ h_out = Ok(MessageAck)

(* how many of the bytes b[2] .. b[i] equal key *)
KeysUpTo(b, key, i) == Cardinality({j \in 2 .. i : b[j] = key})

(* C14: escape passes the first byte through and doubles every later byte  *)
(* equal to key, unescape of what escape gave is the bytes escape was      *)
(* given, unescape passes the first byte through, and unescape of stuffed  *)
(* bytes followed by one more key byte gives what it gives without that    *)
(* byte and raises nothing.                                                *)
C14_EscapeUnescape ==
    h_in.kind = "stuff" =>
        LET key == h_in.frame.start
            b == h_data
            n == Len(h_data)
        IN  /\ h_enc # None =>
                  LET e == h_enc.val
                  IN  /\ h_enc.ok
                      /\ Len(e) = n + KeysUpTo(b, key, n)
                      /\ n > 0 => e[1] = b[1]
                      /\ \A i \in 2 .. n :
                            LET at == i + KeysUpTo(b, key, i - 1)
                            IN  IF b[i] = key THEN e[at] = key /\ e[at + 1] = key
                                ELSE e[at] = b[i]
                      /\ h_out # None => h_out = Ok(b)
            /\ (h_enc = None /\ h_out # None) =>
                  /\ h_out.ok
                  /\ n > 0 => (Len(h_out.val) > 0 /\ h_out.val[1] = b[1])
                  /\ (/\ n >= 2
                      /\ b[n] = key
                      /\ escape(unescape(SubSeq(b, 1, n - 1), key), key) = SubSeq(b, 1, n - 1)) =>
                        /\ h_out.val = unescape(SubSeq(b, 1, n - 1), key)
                        /\ Len(h_out.val) < n

(* C14 witness: bytes that start with the key and hold it twice more have  *)
(* been stuffed and un-stuffed again.                                      *)
C14_Witness ==
    /\ h_in.kind = "stuff"
    /\ h_in.frame.start = 92
    /\ h_data = <<92, 92, 0, 92>>
    /\ h_enc = Ok(<<92, 92, 92, 0, 92, 92>>)
    /\ h_out = Ok(<<92, 92, 0, 92>>)

(* the bytes of the frame of Message m that the checksum is taken over *)
ChecksummedSpan(m) ==
    LET payload == Command_to_bytes(m.command).val
    IN  IF m.cls = "MessageMaster"
        THEN <<m.address, m.command.command, Len(payload)>> \o payload
        ELSE <<m.start, m.command.command, Len(payload)>> \o payload

(* C15: a Master or Slave message whose checksummed bytes XOR to the start *)
(* byte of its frame is encoded with the nibble-swapped start byte (C5 for *)
(* 5C, 0C for C0) as its checksum byte, and parse of the encoded frame     *)
(* gives a message with the same Command.                                  *)
C15_ChecksumCollision ==
    (/\ h_in.kind = "message"
     /\ h_pc # "input"
     /\ Command_to_bytes(h_in.message.command).ok
     /\ XorAll(ChecksummedSpan(h_in.message)) = h_in.message.start) =>
        /\ h_enc.ok
        /\ h_enc.val[Len(h_enc.val)] = (IF h_in.message.start = 92 THEN 197 ELSE 12)
        /\ h_out # None =>
              /\ h_out.ok
              /\ h_out.val.cls = h_in.message.cls
              /\ CommandEq(h_out.val.command, h_in.message.command)

(* C16: a Master frame whose payload holds a doubled 5C, and whose length   *)
(* byte and checksum count both bytes of it, parses to the Master message  *)
(* of the payload with the single 5C; 5C 00 02 A0 03 00 5C 5C A1 parses to *)
(* address 02 with the Unknown command A0 and data 00 5C.                  *)
C16_StuffedPayloadCounted ==
    /\ (h_in.kind = "counted" /\ h_out # None) =>
            h_out = Ok(MessageMaster(h_in.frame.address,
                                     CommandUnknown(h_in.frame.kind, h_in.frame.payload)))
    /\ (h_data = <<92, 0, 2, 160, 3, 0, 92, 92, 161>> /\ h_out # None) =>
            h_out = Ok(MessageMaster(2, CommandUnknown(160, <<0, 92>>)))

(* C17: a datagram that parses to a Master or a Slave message parses to    *)
(* the same message when more bytes follow it.                             *)
C17_TrailingBytesIgnored ==
    (/\ h_more # None
     /\ h_out.val.cls \in {"MessageMaster", "MessageSlave"}) =>
        /\ h_more.data # h_data
        /\ SubSeq(h_more.data, 1, Len(h_data)) = h_data
        /\ h_more.out = h_out

(* C17 witness: the frame 5C 00 20 6B 00 4B followed by A8 has been parsed *)
(* to the null write request of the frame.                                 *)
C17_Witness ==
    /\ h_data = <<92, 0, 32, 107, 0, 75>>
    /\ h_out = Ok(MessageMaster(32, RequestWriteNull))
    /\ h_more = [data |-> <<92, 0, 32, 107, 0, 75, 168>>,
                 out |-> Ok(MessageMaster(32, RequestWriteNull))]

(* C18: the reply a future holds is the first one it was set with, and     *)
(* that is the reply the awaiting caller gets, whatever was set after it   *)
(* before the caller resumed.                                              *)
C18_SingleAssignment ==
    /\ fut.event => fut.response = setlog[1]
    /\ getter.pc = "returned" => getter.result = Ok(setlog[1])

(* C19: get() returns only after a set() and with a response that was set, *)
(* the one response if there was one set(); and once get() is awaiting and *)
(* set() has run, in whichever order, get() returns.                       *)
C19_NoLostWakeup ==
    /\ [](getter.pc = "returned" =>
            /\ setlog # <<>>
            /\ \E i \in DOMAIN setlog : getter.result = Ok(setlog[i]))
    /\ ((getter.pc = "waiting" /\ setlog # <<>>) ~> (getter.pc = "returned"))

(* C19 witness: get() was awaiting before the one set() ran, and has       *)
(* returned its response.                                                  *)
C19_Witness ==
    /\ getter.pc = "returned"
    /\ ~getter.found
    /\ Len(setlog) = 1
    /\ getter.result = Ok(setlog[1])

(* C20: whenever the transport has been given the request frame of a call  *)
(* and the call has neither returned nor been cancelled, its listener is   *)
(* registered; and every item that is dispatched while the call is in that *)
(* state, already before the call has resumed from sending, is handed to   *)
(* its listener.                                                           *)
C20_ListenerBeforeSend ==
    [][\A k \in Calls :
         /\ calls'[k].frame # None => k \in listeners'
         /\ (calls[k].frame # None /\ last' # last /\ last'.outcome = "emitted") =>
               /\ k \in last'.registered
               /\ last'.invoked[k] = 1
      ]_vars

(* C20 witness: the reply for a call was dispatched to its listener while  *)
(* the call was still suspended in sending its request.                    *)
C20_Witness ==
    \E k \in Calls :
        /\ calls[k].pc = "sending"
        /\ calls[k].frame # None
        /\ last.outcome = "emitted"
        /\ Carries(last.message, calls[k])
        /\ k \in last.registered
        /\ last.invoked[k] = 1

(* the position at which the bytes given to the decoder differ from the frame *)
ChangedAt == CHOOSE i \in DOMAIN h_data : h_data[i] # h_in.data[i]

(* C21 as stated: a valid Slave frame of which one payload byte has been   *)
(* changed does not parse: parse raises ParseError.                        *)
C21_PayloadCorruptionAsStated ==
    (h_tamper = "payload" /\ h_out # None) =>
        /\ ~h_out.ok
        /\ h_out.exc = "ParseError"

(* C21: as stated, for a frame that ends with its checksum byte, unless    *)
(* the checksum byte of the frame is 0C and the changed byte differs from  *)
(* the original one in exactly the bits of CC.                             *)
C21_PayloadCorruption ==
    (/\ h_tamper = "payload"
     /\ h_out # None
     /\ ~(/\ h_in.data[Len(h_in.data)] = 12
          /\ h_data[ChangedAt] = BitXor(h_in.data[ChangedAt], 204))) =>
        /\ ~h_out.ok
        /\ h_out.exc = "ParseError"

(* C21 witness: the frame C0 69 02 34 12 8D with 13 for its payload byte   *)
(* 12 has been refused for its checksum.                                   *)
C21_Witness ==
    /\ h_tamper = "payload"
    /\ h_in.data = <<192, 105, 2, 52, 18, 141>>
    /\ h_data = <<192, 105, 2, 52, 19, 141>>
    /\ h_out = Raise("ParseError", "Invalid checksum")

====
